---- MODULE Spec2Model ----
(***************************************************************************)
(* Model of docstringinator: the structural parser (parser.py) and the     *)
(* orchestrator (core.py): the per-file pipeline behind fix_file and       *)
(* preview_changes, the directory batch behind fix_directory with its      *)
(* file filter, the rules that select the functions to document, and the   *)
(* providers' generate_docstring (providers/).                             *)
(*                                                                         *)
(* Text is modelled character by character: a Python str is a sequence of  *)
(* one-character strings, a source file is the sequence of its lines       *)
(* (each terminated by a newline on disk).  A program is a sequence of     *)
(* top-level units; the text is rendered from it, and ast.parse of that    *)
(* text is the tree the units describe.                                    *)
(***************************************************************************)
EXTENDS Integers, Sequences, FiniteSets, TLC

(***************************************************************************)
(* Bounds                                                                  *)
(***************************************************************************)
MaxDefs == 2        \* top-level units of a text handed to parse_string
MaxFileDefs == 2    \* top-level units of the file given to fix_file
MaxRuns == 2        \* calls of a public method on the path

(***************************************************************************)
(* Python str operations used by the code                                  *)
(***************************************************************************)
None == << "None" >>

IsSpace(c) == c \in {" ", "\t", "\n", "\r"}

RECURSIVE LStrip(_)
LStrip(s) ==
    IF s = <<>> THEN s
    ELSE IF IsSpace(Head(s)) THEN LStrip(Tail(s)) ELSE s

RECURSIVE RStrip(_)
RStrip(s) ==
    IF s = <<>> THEN s
    ELSE IF IsSpace(s[Len(s)]) THEN RStrip(SubSeq(s, 1, Len(s) - 1)) ELSE s

Strip(s) == RStrip(LStrip(s))

StartsWith(s, p) == Len(s) >= Len(p) /\ SubSeq(s, 1, Len(p)) = p

StartsWithAny(s, ps) == \E p \in ps : StartsWith(s, p)

EndsWith(s, p) == Len(s) >= Len(p) /\ SubSeq(s, Len(s) - Len(p) + 1, Len(s)) = p

Contains(s, sub) == \E i \in 0..(Len(s) - Len(sub)) : SubSeq(s, i + 1, i + Len(sub)) = sub

\* str.find for a one-character needle: 0-based index of the first hit, -1 if none
Find(s, c) ==
    IF \E i \in 1..Len(s) : s[i] = c
    THEN (CHOOSE i \in 1..Len(s) : s[i] = c /\ \A j \in 1..(i - 1) : s[j] # c) - 1
    ELSE -1

\* s[k:] with a 0-based k
SliceFrom(s, k) == SubSeq(s, k + 1, Len(s))

\* source_code.split("\n") of a text whose every line ends in a newline
SplitLines(text) == Append(text, <<>>)

Indent(n) == [i \in 1..n |-> " "]

IndentAll(ls, n) == [i \in 1..Len(ls) |-> Indent(n) \o ls[i]]

(***************************************************************************)
(* Source programs: the inputs of the parser                               *)
(***************************************************************************)
Names == { <<"f">>, <<"g">>, <<"_","h","e","l","p","e","r">>, <<"_","_","i","n","i","t","_","_">>, <<"t","e","s","t","_","f","o","o">>, <<"p","u","b","l","i","c","_","a","p","i">>,
           <<"_","_","p","r","i","v","a","t","e">>, <<"_","x","_","_">>, <<"t","e","s","t","i","n","g">> }

HeaderIds == {"plain", "note", "inline", "multi", "commented", "password", "colonnote",
              "broken"}

\* the lines of a function header, before indentation
HeaderLines(h, name) ==
    CASE h = "plain" -> << <<"d","e","f"," ">> \o name \o <<"(",")",":">> >>
      [] h = "note" -> << <<"d","e","f"," ">> \o name \o <<"(","x",":"," ","i","n","t",")"," ","-",">"," ","i","n","t",":"," "," ","#"," ","n","o","t","e">> >>
      [] h = "inline" -> << <<"d","e","f"," ">> \o name \o <<"(",")",":"," ","r","e","t","u","r","n"," ","1">> >>
      [] h = "multi" -> << <<"d","e","f"," ">> \o name \o <<"(">>,
                           <<" "," "," "," ","a",":"," ","i","n","t",",">>,
                           <<" "," "," "," ","b",":"," ","s","t","r"," ","="," ","\"","x","\"">>,
                           <<")"," ","-",">"," ","b","o","o","l",":">> >>
      [] h = "commented" -> << <<"d","e","f"," ">> \o name \o <<"(">>,
                               <<" "," "," "," ","#"," ","P","a","r","a","m","e","t","e","r"," ","c","o","m","m","e","n","t">>,
                               <<" "," "," "," ","a",":"," ","s","t","r",",">>,
                               <<" "," "," "," ","b",":"," ","i","n","t"," ","="," ","1","0",","," "," ","#"," ","D","e","f","a","u","l","t"," ","v","a","l","u","e"," ","c","o","m","m","e","n","t">>,
                               <<")"," ","-",">"," ","d","i","c","t",":"," "," ","#"," ","R","e","t","u","r","n"," ","t","y","p","e"," ","c","o","m","m","e","n","t">> >>
      [] h = "password" -> << <<"d","e","f"," ">> \o name \o <<"(">>,
                              <<" "," "," "," ","p","a","s","s","w","o","r","d",",">>,
                              <<")",":">> >>
      [] h = "colonnote" -> << <<"d","e","f"," ">> \o name \o <<"(">>,
                               <<" "," "," "," ","a",","," "," ","#"," ","f","i","r","s","t",":">>,
                               <<" "," "," "," ","b",",">>,
                               <<")",":">> >>
      [] h = "broken" -> << <<"d","e","f"," ">> \o name \o <<"(",":">> >>

\* node.args.args of the header, as parameter names
HeaderArgs(h) ==
    CASE h \in {"plain", "inline", "broken"} -> <<>>
      [] h = "note" -> << <<"x">> >>
      [] h \in {"multi", "commented", "colonnote"} -> << <<"a">>, <<"b">> >>
      [] h = "password" -> << <<"p","a","s","s","w","o","r","d">> >>

\* ast.unparse(node.returns), or None
HeaderReturns(h) ==
    CASE h = "note" -> <<"i","n","t">>
      [] h = "multi" -> <<"b","o","o","l">>
      [] h = "commented" -> <<"d","i","c","t">>
      [] OTHER -> None

BodyIds == {"none", "return", "pass", "branch", "short_doc", "good_doc"}

DocShort == <<"S","h","o","r","t">>
DocGood == <<"R","e","t","u","r","n"," ","T","r","u","e"," ","a","l","w","a","y","s",","," ","n","o","t","h","i","n","g"," ","m","o","r","e",".">>

\* the lines of a function body, before indentation
BodyLines(b) ==
    CASE b = "none" -> <<>>
      [] b = "return" -> << <<"r","e","t","u","r","n"," ","T","r","u","e">> >>
      [] b = "pass" -> << <<"p","a","s","s">> >>
      [] b = "branch" -> << <<"i","f"," ","x",":">>, <<" "," "," "," ","r","e","t","u","r","n"," ","1">>, <<"r","e","t","u","r","n"," ","0">> >>
      [] b = "short_doc" -> << <<"\"","\"","\"">> \o DocShort \o <<"\"","\"","\"">>, <<"r","e","t","u","r","n"," ","T","r","u","e">> >>
      [] b = "good_doc" -> << <<"\"","\"","\"">> \o DocGood \o <<"\"","\"","\"">>, <<"r","e","t","u","r","n"," ","T","r","u","e">> >>

\* the value of the body's leading string-literal statement, or None
BodyDocstring(b) ==
    CASE b = "short_doc" -> DocShort
      [] b = "good_doc" -> DocGood
      [] OTHER -> None

Wraps == { <<>>, <<"class">>, <<"def">>, <<"class", "def">>, <<"def", "class">> }

ClassName == <<"A">>
OuterName == <<"o","u","t","e","r">>

WrapLine(kind) == IF kind = "class" THEN <<"c","l","a","s","s"," ","A",":">> ELSE <<"d","e","f"," ","o","u","t","e","r","(",")",":">>

MkUnit(w, n, h, b) == [wrap |-> w, name |-> n, header |-> h, body |-> b]

\* the units a program is made of: header and body shapes, definition
\* names, and enclosing constructs
Units ==
    { MkUnit(<<>>, <<"f">>, "plain", b) : b \in {"return", "short_doc"} }
    \cup { MkUnit(<<>>, <<"f">>, "note", b) : b \in {"return", "branch"} }
    \cup { MkUnit(<<>>, <<"f">>, "inline", "none") }
    \cup { MkUnit(<<>>, <<"f">>, "multi", b) : b \in {"return", "good_doc"} }
    \cup { MkUnit(<<>>, <<"f">>, h, "return") : h \in {"commented", "password", "colonnote"} }
    \cup { MkUnit(<<>>, n, "plain", "pass") : n \in Names \ { <<"f">>, <<"g">> } }
    \cup { MkUnit(w, <<"g">>, "plain", "return") : w \in Wraps \ { <<>> } }
    \cup { MkUnit(<<"class">>, <<"g">>, "multi", "return") }
    \cup { MkUnit(<<>>, <<"f">>, "broken", "return") }

Programs == UNION { [1..n -> Units] : n \in 1..MaxDefs }

UnitLines(u) ==
    LET d == Len(u.wrap) IN
    [k \in 1..d |-> Indent(4 * (k - 1)) \o WrapLine(u.wrap[k])]
    \o IndentAll(HeaderLines(u.header, u.name), 4 * d)
    \o IndentAll(BodyLines(u.body), 4 * (d + 1))

\* the text of a program, as its lines
RECURSIVE Render(_)
Render(units) ==
    IF units = <<>> THEN <<>> ELSE UnitLines(Head(units)) \o Render(Tail(units))

\* the FunctionDef nodes of one unit whose first line is `first`, in source
\* order; colon_line is the line holding the header's terminating colon
UnitNodes(u, first) ==
    LET d == Len(u.wrap)
        outer(k) == [name |-> OuterName, lineno |-> first + k - 1,
                     colon_line |-> first + k - 1, header_lines |-> 1,
                     parents |-> SubSeq(u.wrap, 1, k - 1),
                     args |-> <<>>, returns |-> None, docstring |-> None]
        inner == [name |-> u.name, lineno |-> first + d,
                  colon_line |-> first + d + Len(HeaderLines(u.header, u.name)) - 1,
                  header_lines |-> Len(HeaderLines(u.header, u.name)),
                  parents |-> u.wrap,
                  args |-> HeaderArgs(u.header), returns |-> HeaderReturns(u.header),
                  docstring |-> BodyDocstring(u.body)]
        wrappers == [k \in 1..d |-> outer(k)]
    IN SelectSeq(wrappers, LAMBDA n : u.wrap[Len(n.parents) + 1] = "def") \o << inner >>

RECURSIVE SourceNodes(_, _)
SourceNodes(units, first) ==
    IF units = <<>> THEN <<>>
    ELSE UnitNodes(Head(units), first)
         \o SourceNodes(Tail(units), first + Len(UnitLines(Head(units))))

\* ast.parse followed by ast.walk: the FunctionDef nodes in breadth-first
\* order (all nodes of one nesting depth before any deeper node)
RECURSIVE WalkFrom(_, _)
WalkFrom(nodes, depth) ==
    IF \A i \in 1..Len(nodes) : Len(nodes[i].parents) < depth THEN <<>>
    ELSE SelectSeq(nodes, LAMBDA n : Len(n.parents) = depth) \o WalkFrom(nodes, depth + 1)

AstWalk(units) == WalkFrom(SourceNodes(units, 1), 0)

(***************************************************************************)
(* parser.py: PythonParser                                                 *)
(***************************************************************************)
\* the name filter with the dunder test made on the end of the name
SkipNameBySuffix(name) ==
    \/ StartsWith(name, <<"_">>) /\ ~EndsWith(name, <<"_","_">>)
    \/ StartsWith(name, <<"t","e","s","t","_">>)

\* the name filter at the top of _extract_function_info: TRUE when the
\* definition is skipped
SkipName(name) ==
    \/ StartsWith(name, <<"_">>) /\ ~StartsWith(name, <<"_","_">>)
    \/ StartsWith(name, <<"t","e","s","t","_">>)

\* _get_class_name: follow the parent links upwards to the first ClassDef
RECURSIVE ClassNameOf(_)
ClassNameOf(parents) ==
    IF parents = <<>> THEN None
    ELSE IF parents[Len(parents)] = "class" THEN ClassName
    ELSE ClassNameOf(SubSeq(parents, 1, Len(parents) - 1))

\* _get_function_end_line: i is the 1-based number of the line looked at
RECURSIVE EndLineScan(_, _)
EndLineScan(i, lines) ==
    IF i > Len(lines) THEN Len(lines)
    ELSE IF StartsWithAny(Strip(lines[i]), { <<"d","e","f"," ">>, <<"c","l","a","s","s"," ">> }) THEN i - 1
    ELSE EndLineScan(i + 1, lines)

FunctionEndLine(node, lines) == EndLineScan(node.lineno + 1, lines)

\* the comment test of _get_function_signature_end_line: everything after
\* the first colon of the stripped line is blank or a comment
ColonThenComment(line_stripped) ==
    LET colon_index == Find(line_stripped, ":")
        after_colon == Strip(SliceFrom(line_stripped, colon_index + 1))
    IN colon_index # -1 /\ (after_colon = <<>> \/ StartsWith(after_colon, <<"#">>))

\* the loop of _get_function_signature_end_line at 0-based index i
RECURSIVE SignatureScan(_, _, _)
SignatureScan(i, start_line, lines) ==
    IF i >= Len(lines) THEN start_line + 1
    ELSE
      LET line == lines[i + 1]
          line_stripped == Strip(line)
      IN
      IF line_stripped = <<>> \/ StartsWith(line_stripped, <<"#">>)
        THEN SignatureScan(i + 1, start_line, lines)
      ELSE IF EndsWith(line_stripped, <<":">>) THEN i + 1
      ELSE IF Contains(line_stripped, <<":">>) /\ ColonThenComment(line_stripped) THEN i + 1
      ELSE IF /\ i > start_line
              /\ ~StartsWithAny(line, { <<" ">>, <<"\t">> })
              /\ StartsWithAny(line_stripped, { <<"d","e","f"," ">>, <<"c","l","a","s","s"," ">>, <<"@">> })
        THEN start_line + 1
      ELSE IF StartsWithAny(line_stripped, { <<"\"","\"","\"">>, <<"'","'","'">>, <<"r","e","t","u","r","n"," ">>, <<"p","a","s","s">> })
        THEN start_line + 1
      ELSE SignatureScan(i + 1, start_line, lines)

\* the fallback taken from the 1-based line number
FunctionSignatureEndLineOneBased(node, lines) == SignatureScan(node.lineno - 1, node.lineno, lines)

FunctionSignatureEndLine(node, lines) == SignatureScan(node.lineno - 1, node.lineno - 1, lines)

\* _extract_function_info for an eligible node; `at` is the node's position
\* in the walk, kept to relate the record to its definition
FunctionInfo(node, at, lines) ==
    LET class_name == ClassNameOf(node.parents) IN
    [ function_name |-> node.name,
      class_name |-> class_name,
      existing_docstring |-> node.docstring,
      line_number |-> FunctionSignatureEndLine(node, lines),
      end_line_number |-> FunctionEndLine(node, lines),
      has_docstring |-> node.docstring # None,
      is_method |-> class_name # None,
      return_type |-> node.returns,
      parameters |-> node.args,
      node |-> at ]

\* _extract_functions: one record per eligible FunctionDef, in walk order
RECURSIVE ExtractFrom(_, _, _)
ExtractFrom(walk, at, lines) ==
    IF at > Len(walk) THEN <<>>
    ELSE (IF SkipName(walk[at].name) THEN <<>> ELSE << FunctionInfo(walk[at], at, lines) >>)
         \o ExtractFrom(walk, at + 1, lines)

ExtractFunctions(walk, source_code) == ExtractFrom(walk, 1, SplitLines(source_code))

\* ast.parse accepts the text: a header that is not a def statement makes
\* it raise SyntaxError
Parseable(units) == \A i \in 1..Len(units) : units[i].header # "broken"

\* the handler of parse_file that turns only SyntaxError into ParseError
ParserRaisesSyntaxOnly(inner) == IF inner = "SyntaxError" THEN "ParseError" ELSE inner

\* `except Exception as e: raise ParseError(...) from e` of parse_file and
\* parse_string: the class raised for the exception that reached the handler
ParserRaises(inner) == "ParseError"

\* PythonParser.parse_string: the records, or the exception raised
ParseStringResult(units, source_code) ==
    IF Parseable(units)
    THEN [raised |-> "none", cause |-> "none", tree |-> AstWalk(units),
          functions |-> ExtractFunctions(AstWalk(units), source_code)]
    ELSE [raised |-> ParserRaises("SyntaxError"), cause |-> "SyntaxError",
          tree |-> <<>>, functions |-> <<>>]

\* PythonParser.parse_file: open() and read() come first, then the same
\* steps as parse_string
ParseFileResult(kind, units, source_code) ==
    CASE kind = "missing" ->
           [raised |-> ParserRaises("FileNotFoundError"), cause |-> "FileNotFoundError",
            tree |-> <<>>, functions |-> <<>>]
      [] kind = "unreadable" ->
           [raised |-> ParserRaises("PermissionError"), cause |-> "PermissionError",
            tree |-> <<>>, functions |-> <<>>]
      [] OTHER -> ParseStringResult(units, source_code)

(***************************************************************************)
(* core.py: Docstringinator, the pure helpers                              *)
(***************************************************************************)
UpperCase == << "A", "B", "C", "D", "E", "F", "G", "H", "I", "J", "K", "L", "M",
                "N", "O", "P", "Q", "R", "S", "T", "U", "V", "W", "X", "Y", "Z" >>
LowerCase == << "a", "b", "c", "d", "e", "f", "g", "h", "i", "j", "k", "l", "m",
                "n", "o", "p", "q", "r", "s", "t", "u", "v", "w", "x", "y", "z" >>

\* str.lower
Lower(s) ==
    [i \in 1..Len(s) |->
        IF \E k \in 1..Len(UpperCase) : UpperCase[k] = s[i]
        THEN LowerCase[CHOOSE k \in 1..Len(UpperCase) : UpperCase[k] = s[i]]
        ELSE s[i]]

MinDocstringLength == 20

\* _should_improve_docstring
ShouldImproveDocstring(func) ==
    IF ~func.has_docstring \/ func.existing_docstring \in {None, <<>>} THEN FALSE
    ELSE
      LET docstring == Strip(func.existing_docstring)
          docstring_lower == Lower(docstring)
          has_params == \E keyword \in { <<"p","a","r","a","m">>, <<"a","r","g">> } : Contains(docstring_lower, keyword)
          has_returns == Contains(docstring_lower, <<"r","e","t","u","r","n">>)
      IN
      IF Len(docstring) < MinDocstringLength THEN TRUE
      ELSE IF func.parameters # <<>> /\ ~has_params THEN TRUE
      ELSE func.return_type \notin {None, <<>>} /\ ~has_returns

\* no filter: a docstring is requested for every record
TargetFunctionsAll(funcs) == funcs

\* the filter of _process_file: the functions a docstring is requested for
RECURSIVE TargetFunctions(_)
TargetFunctions(funcs) ==
    IF funcs = <<>> THEN <<>>
    ELSE (IF ~Head(funcs).has_docstring \/ ShouldImproveDocstring(Head(funcs))
          THEN << Head(funcs) >> ELSE <<>>)
         \o TargetFunctions(Tail(funcs))

TripleDouble == <<"\"","\"","\"">>
TripleSingle == <<"'","'","'">>

\* _clean_docstring
CleanDocstring(docstring) ==
    IF \/ StartsWith(docstring, TripleDouble) /\ EndsWith(docstring, TripleDouble)
       \/ StartsWith(docstring, TripleSingle) /\ EndsWith(docstring, TripleSingle)
    THEN SubSeq(docstring, 4, Len(docstring) - 3)
    ELSE docstring

\* _add_docstring
AddDocstring(func, new_docstring) ==
    [ line_number |-> func.line_number,
      original_text |-> <<>>,
      new_text |-> new_docstring,
      change_type |-> "add",
      description |-> <<"A","d","d"," ","d","o","c","s","t","r","i","n","g"," ","t","o"," ">> \o func.function_name,
      node |-> func.node ]

\* _improve_docstring
ImproveDocstring(func, new_docstring) ==
    [ line_number |-> func.line_number,
      original_text |-> IF func.existing_docstring \in {None, <<>>} THEN <<>>
                        ELSE func.existing_docstring,
      new_text |-> new_docstring,
      change_type |-> "modify",
      description |-> <<"I","m","p","r","o","v","e"," ","d","o","c","s","t","r","i","n","g"," ","f","o","r"," ">> \o func.function_name,
      node |-> func.node ]

\* the tail of _process_function once the provider has answered
ProcessFunction(func, response_content) ==
    LET new_docstring == CleanDocstring(response_content) IN
    IF ~func.has_docstring THEN AddDocstring(func, new_docstring)
    ELSE ImproveDocstring(func, new_docstring)

\* the sort without reverse=True
RECURSIVE SortedChangesAscending(_)
SortedChangesAscending(changes) ==
    IF changes = <<>> THEN <<>>
    ELSE
      LET first == Head(changes)
          rest == SortedChangesAscending(Tail(changes))
          before == SelectSeq(rest, LAMBDA c : c.line_number < first.line_number)
          after == SelectSeq(rest, LAMBDA c : c.line_number >= first.line_number)
      IN before \o << first >> \o after

\* sorted(changes, key=lambda x: x.line_number, reverse=True): a stable sort,
\* changes of equal line_number keep their arrival order
RECURSIVE SortedChanges(_)
SortedChanges(changes) ==
    IF changes = <<>> THEN <<>>
    ELSE
      LET first == Head(changes)
          rest == SortedChanges(Tail(changes))
          before == SelectSeq(rest, LAMBDA c : c.line_number > first.line_number)
          after == SelectSeq(rest, LAMBDA c : c.line_number <= first.line_number)
      IN before \o << first >> \o after

\* file_path.stat().st_size of a file holding these lines
RECURSIVE FileSize(_)
FileSize(file_lines) ==
    IF file_lines = <<>> THEN 0
    ELSE Len(Head(file_lines)) + 1 + FileSize(Tail(file_lines))

CountType(changes, type) == Len(SelectSeq(changes, LAMBDA c : c.change_type = type))

\* the ProcessingResult built at the end of _process_file
ProcessingResult(found, result_changes, result_errors, size) ==
    [ changes |-> result_changes,
      errors |-> result_errors,
      warnings |-> <<>>,
      success |-> Len(result_errors) = 0,
      file_size |-> size,
      docstrings_found |-> Len(found),
      docstrings_modified |-> CountType(result_changes, "modify"),
      docstrings_added |-> CountType(result_changes, "add") ]

(***************************************************************************)
(* models.py and providers: DocstringInfo and generate_docstring           *)
(***************************************************************************)
\* the fields models.py declares for DocstringInfo; a keyword the
\* constructor is given beyond them is dropped, and reading it from the
\* record raises AttributeError
DocstringInfoFields ==
    { "function_name", "class_name", "module_name", "signature", "existing_docstring",
      "line_number", "end_line_number", "has_docstring", "is_method", "is_async",
      "return_type", "parameters" }

\* the attributes of the record _create_prompt reads, in the order it
\* reads them
PromptAttributes ==
    << "class_name", "is_async", "function_name", "parameters", "return_type",
       "function_body", "signature" >>

\* _create_prompt: the exception it raises, "none" when it returns a prompt
CreatePromptRaises ==
    IF \A i \in 1..Len(PromptAttributes) : PromptAttributes[i] \in DocstringInfoFields
    THEN "none" ELSE "AttributeError"

\* what happens to the request once the prompt is built: the reply is
\* decoded, the connection fails, the server answers with an error status,
\* or the reply is not JSON
RequestOutcomes == {"ok", "ConnectionError", "HTTPError", "JSONDecodeError"}

\* generate_docstring of a provider: the prompt is built before the try
\* block, the request and the decoding of the reply are inside it
GenerateDocstringResult(outcome, text) ==
    IF CreatePromptRaises # "none"
    THEN [raised |-> CreatePromptRaises, cause |-> "none", value |-> None]
    ELSE IF outcome # "ok"
    THEN [raised |-> "APIError", cause |-> outcome, value |-> None]
    ELSE [raised |-> "none", cause |-> "none", value |-> text]

(***************************************************************************)
(* Docstringinator._filter_files                                           *)
(***************************************************************************)
\* a path is the sequence of its segments below the file system root

\* Path.cwd()
Cwd == << <<"p","r","o","j">> >>

\* the default exclude_patterns and include_patterns of ProcessingConfig,
\* each pattern split at its slashes
DefaultExcludePatterns ==
    << << <<"*">>, <<"t","e","s","t","s">>, <<"*">> >>, << <<"*">>, <<"m","i","g","r","a","t","i","o","n","s">>, <<"*">> >>, << <<"*">>, <<"v","e","n","v">>, <<"*">> >> >>

DefaultIncludePatterns == << << <<"*",".","p","y">> >> >>

\* one segment of a pattern against one segment of a path: `*` stands for
\* any run of characters of the segment
RECURSIVE GlobMatch(_, _)
GlobMatch(glob, segment) ==
    IF glob = <<>> THEN segment = <<>>
    ELSE IF Head(glob) = "*"
         THEN \E k \in 0..Len(segment) :
                 GlobMatch(Tail(glob), SubSeq(segment, k + 1, Len(segment)))
         ELSE /\ segment # <<>>
              /\ Head(segment) = Head(glob)
              /\ GlobMatch(Tail(glob), Tail(segment))

\* GitWildMatchPattern: a pattern without a slash matches a segment at any
\* depth; a pattern with a slash is matched from the first segment on; in
\* both cases everything below a matched path matches too
PatternMatches(pattern, path) ==
    IF Len(pattern) = 1
    THEN \E i \in 1..Len(path) : GlobMatch(pattern[1], path[i])
    ELSE /\ Len(path) >= Len(pattern)
         /\ \A i \in 1..Len(pattern) : GlobMatch(pattern[i], path[i])

\* PathSpec.match_file
MatchFile(patterns, path) ==
    \E i \in 1..Len(patterns) : PatternMatches(patterns[i], path)

IsRelativeTo(path, base) ==
    Len(path) >= Len(base) /\ SubSeq(path, 1, Len(base)) = base

\* file_path.relative_to(base)
RelativeTo(path, base) == SubSeq(path, Len(base) + 1, Len(path))

\* the path _filter_files hands to the matcher: relative to Path.cwd(), or
\* the path itself when relative_to raises ValueError
MatchedPath(path) == IF IsRelativeTo(path, Cwd) THEN RelativeTo(path, Cwd) ELSE path

\* the filter that tests the include patterns only
FilterFilesIncludeOnly(files, processing) ==
    SelectSeq(files, LAMBDA file :
        MatchFile(processing.include_patterns, MatchedPath(file.path)))

\* _filter_files
FilterFiles(files, processing) ==
    SelectSeq(files, LAMBDA file :
        /\ ~MatchFile(processing.exclude_patterns, MatchedPath(file.path))
        /\ MatchFile(processing.include_patterns, MatchedPath(file.path)))

(***************************************************************************)
(* Inputs of the orchestrator                                              *)
(***************************************************************************)
FileUnits ==
    { MkUnit(<<>>, <<"f">>, "plain", b) : b \in {"return", "short_doc", "good_doc"} }
    \cup { MkUnit(<<>>, <<"g">>, "multi", "return") }
    \cup { MkUnit(<<>>, <<"_","h","e","l","p","e","r">>, "plain", "pass") }
    \cup { MkUnit(<<>>, <<"f">>, "broken", "return") }

FilePrograms == UNION { [1..n -> FileUnits] : n \in 1..MaxFileDefs }

DefaultMaxFileSize == 1000000

DefaultConfig ==
    [dry_run |-> FALSE, backup_files |-> TRUE, max_file_size |-> DefaultMaxFileSize,
     exclude_patterns |-> DefaultExcludePatterns,
     include_patterns |-> DefaultIncludePatterns]

\* ProcessingConfig: the defaults, and each option moved off its default;
\* the size limit one byte below the size of the file and, where no backup
\* is made, exactly at it
Configs(file_lines) ==
    { DefaultConfig,
      [DefaultConfig EXCEPT !.dry_run = TRUE],
      [DefaultConfig EXCEPT !.backup_files = FALSE,
                            !.max_file_size = FileSize(file_lines)],
      [DefaultConfig EXCEPT !.max_file_size = FileSize(file_lines) - 1] }

\* what the provider's generate_docstring can answer for one function: a
\* text, or an exception of one of the classes the orchestrator tells apart
GeneratorTexts == { <<"T","e","s","t"," ","d","o","c","s","t","r","i","n","g",".">>, <<"\"","\"","\"","G","e","n","e","r","a","t","e","d"," ","d","o","c","s","t","r","i","n","g",".","\"","\"","\"">> }

ProviderFailures == {"APIError", "ValueError", "OSError"}

Answers ==
    { [exc |-> "none", content |-> t] : t \in GeneratorTexts }
    \cup { [exc |-> e, content |-> <<>>] : e \in ProviderFailures }

ExceptionText(exc) ==
    CASE exc = "APIError" -> <<"A","P","I"," ","e","r","r","o","r",".">>
      [] exc = "FileNotFoundError" -> <<"N","o"," ","s","u","c","h"," ","f","i","l","e"," ","o","r"," ","d","i","r","e","c","t","o","r","y">>
      [] exc = "ValueError" -> <<"i","n","v","a","l","i","d"," ","v","a","l","u","e">>
      [] exc = "OSError" -> <<"I","/","O"," ","e","r","r","o","r">>

\* what a path handed to the orchestrator names on disk
PathKinds == {"py_file", "other_file", "directory", "missing"}

\* the ValueError variant of _check_file_size
FileTooLargeOrEqual(file_size, max_size) == file_size >= max_size

\* _check_file_size: the condition under which it raises ValueError
FileTooLarge(file_size, max_size) == file_size > max_size

(***************************************************************************)
(* State                                                                   *)
(***************************************************************************)
VARIABLES
    program,           \* the units the text was written from
    content,           \* the text: the argument of parse_string, the file of fix_file
    tree,              \* the FunctionDef nodes of ast.parse(content), in walk order
    functions,         \* the records returned by the parser
    pc,                \* position in the running call
    config,            \* self.config.processing
    backup,            \* the .bak file, None while it does not exist
    target_functions,  \* _process_file: the filtered records
    next_func,         \* _process_file: position of the loop over target_functions
    changes,           \* _process_file: the accumulated Change records
    errors,            \* _process_file: the accumulated error strings
    lines,             \* _apply_changes: the buffer read from the file
    pending,           \* _apply_changes: the sorted changes not yet visited
    visited,           \* _apply_changes: the changes visited, in order
    responses,         \* the provider's answer for each function asked about
    faults,            \* the provider failures of the running call, in order
    returned,          \* one entry per finished call of a public method
    entry,             \* the public method that is running, or that ran last
    path_kind,         \* what the path being processed names on disk
    directory,         \* fix_directory: the files rglob finds, in its order
    batch,             \* _process_directory: its locals
    docstring_info,    \* the argument of _should_improve_docstring
    verdict            \* what _should_improve_docstring returned, empty before the call

vars == << program, content, tree, functions, pc, config, backup, target_functions,
           next_func, changes, errors, lines, pending, visited, responses, faults,
           returned, entry, path_kind, directory, batch, docstring_info, verdict >>

parser_vars == << program, content, tree, functions >>
call_vars == << target_functions, next_func, changes, errors, lines, pending, visited, faults >>
batch_vars == << directory, batch >>
rule_vars == << docstring_info, verdict >>

\* _process_directory before it has looked at a file
NoBatch ==
    [ filtered_files |-> <<>>, next_file |-> 1, results |-> <<>>,
      total_files |-> 0, successful_files |-> 0, failed_files |-> 0,
      total_changes |-> 0, total_errors |-> 0, total_warnings |-> 0 ]

\* no call has been made yet
NothingCalled ==
    /\ tree = <<>>
    /\ functions = <<>>
    /\ backup = None
    /\ target_functions = <<>>
    /\ next_func = 1
    /\ changes = <<>>
    /\ errors = <<>>
    /\ lines = <<>>
    /\ pending = <<>>
    /\ visited = <<>>
    /\ responses = <<>>
    /\ faults = <<>>
    /\ returned = <<>>
    /\ entry = "none"
    /\ batch = NoBatch
    /\ verdict = <<>>

(***************************************************************************)
(* PythonParser.parse_string and parse_file                                *)
(***************************************************************************)
InitParser ==
    /\ program \in Programs
    /\ content = Render(program)
    /\ pc = "start"
    /\ config = DefaultConfig
    /\ path_kind \in {"py_file", "missing", "unreadable"}
    /\ directory = <<>>
    /\ docstring_info = None
    /\ NothingCalled

\* the call of a parser method ends: with the records, or by raising
ParserReturns(method, result) ==
    /\ tree' = result.tree
    /\ functions' = result.functions
    /\ entry' = method
    /\ pc' = IF result.raised = "none" THEN "parsed" ELSE "raised"
    /\ returned' = Append(returned,
                          [call |-> method, raised |-> result.raised,
                           cause |-> result.cause,
                           value |-> IF result.raised = "none" THEN result.functions
                                     ELSE None])
    /\ UNCHANGED << program, content, config, backup, call_vars, responses, path_kind,
                    batch_vars, rule_vars >>

\* parse_string(content)
ParseString ==
    /\ pc = "start"
    /\ ParserReturns("parse_string", ParseStringResult(program, content))

\* parse_file(path)
CallParseFile ==
    /\ pc = "start"
    /\ ParserReturns("parse_file", ParseFileResult(path_kind, program, content))

NextParser == ParseString \/ CallParseFile

SpecParser == InitParser /\ [][NextParser]_vars

(***************************************************************************)
(* Docstringinator: fix_file, preview_changes and _process_file            *)
(***************************************************************************)
Init ==
    /\ path_kind \in PathKinds
    /\ program \in FilePrograms
    /\ path_kind # "py_file" => program = << MkUnit(<<>>, <<"f">>, "plain", "return") >>
    /\ content = Render(program)
    /\ pc = "idle"
    /\ config \in Configs(Render(program))
    /\ path_kind # "py_file" => config = DefaultConfig
    /\ directory = <<>>
    /\ docstring_info = None
    /\ NothingCalled

\* a public method raises before it reaches _process_file or
\* _process_directory
Rejects(method, exception) ==
    /\ pc = "idle"
    /\ Len(returned) < MaxRuns
    /\ entry' = method
    /\ returned' = Append(returned, [call |-> method, raised |-> exception,
                                     cause |-> "none", value |-> None])
    /\ UNCHANGED << parser_vars, pc, config, backup, call_vars, responses, path_kind,
                    batch_vars, rule_vars >>

\* fix_file with the suffix test before the existence test
FixFileRaisesBySuffix(kind) == "ValueError"

\* fix_file: what it raises for a path that is not an existing .py file
FixFileRaises(kind) == IF kind = "missing" THEN "FileNotFoundError" ELSE "ValueError"

\* fix_directory: what it raises for a path that is not an existing directory
FixDirectoryRaises(kind) ==
    IF kind = "missing" THEN "FileNotFoundError" ELSE "NotADirectoryError"

\* fix_file: the path does not exist, or its suffix is not .py
FixFileRejects ==
    /\ path_kind # "py_file"
    /\ Rejects("fix_file", FixFileRaises(path_kind))

\* preview_changes: the path does not exist
PreviewChangesRejects ==
    /\ path_kind = "missing"
    /\ Rejects("preview_changes", "FileNotFoundError")

\* fix_directory: the path does not exist, or it is not a directory
FixDirectoryRejects ==
    /\ path_kind \in {"missing", "other_file"}
    /\ Rejects("fix_directory", FixDirectoryRaises(path_kind))

\* _process_file starts with empty changes and errors
EnterProcessFile ==
    /\ pc' = "check_size"
    /\ target_functions' = <<>>
    /\ next_func' = 1
    /\ changes' = <<>>
    /\ errors' = <<>>
    /\ lines' = <<>>
    /\ pending' = <<>>
    /\ visited' = <<>>
    /\ faults' = <<>>

\* a public method hands the existing file to _process_file
Accepts(method) ==
    /\ pc = "idle"
    /\ Len(returned) < MaxRuns
    /\ content = Render(program)
    /\ entry' = method
    /\ EnterProcessFile
    /\ UNCHANGED << parser_vars, config, backup, responses, returned, path_kind,
                    batch_vars, rule_vars >>

\* fix_file on an existing .py file
FixFile ==
    /\ path_kind = "py_file"
    /\ Accepts("fix_file")

\* preview_changes on an existing file: config.processing is left as it is
PreviewChanges ==
    /\ path_kind = "py_file"
    /\ Accepts("preview_changes")

\* the call ends by raising: the `except Exception` of _process_file turns
\* whatever escaped the try block into ProcessingError, which no handler of
\* _process_directory names
Raise(exception) ==
    /\ pc' = "idle"
    /\ returned' = Append(returned, [call |-> entry, raised |-> "ProcessingError",
                                     cause |-> exception, value |-> None])

\* _check_file_size: stat() and the comparison
CheckFileSize ==
    /\ pc = "check_size"
    /\ IF path_kind = "missing" THEN Raise("FileNotFoundError")
       ELSE IF FileTooLarge(FileSize(content), config.max_file_size)
            THEN Raise("ValueError: File too large")
            ELSE pc' = "backup" /\ UNCHANGED returned
    /\ UNCHANGED << parser_vars, config, backup, call_vars, responses, entry, path_kind,
                    batch_vars, rule_vars >>

\* the backup step without the copy
CreateBackupSkipped ==
    /\ pc = "backup"
    /\ pc' = "parse"
    /\ UNCHANGED << parser_vars, config, backup, call_vars, responses, returned, entry,
                    path_kind, batch_vars, rule_vars >>

\* shutil.copy2 to the .bak path when backup_files is set
CreateBackup ==
    /\ pc = "backup"
    /\ IF config.backup_files /\ path_kind = "unreadable"
       THEN Raise("PermissionError") /\ UNCHANGED backup
       ELSE /\ backup' = IF config.backup_files THEN content ELSE backup
            /\ pc' = "parse"
            /\ UNCHANGED returned
    /\ UNCHANGED << parser_vars, config, call_vars, responses, entry, path_kind,
                    batch_vars, rule_vars >>

\* extract_docstrings (parse_file) and the filter that follows it
ParseFile ==
    /\ pc = "parse"
    /\ LET result == ParseFileResult(path_kind, program, content) IN
       IF result.raised # "none"
       THEN Raise(result.raised) /\ UNCHANGED << tree, functions, target_functions >>
       ELSE /\ tree' = result.tree
            /\ functions' = result.functions
            /\ target_functions' = TargetFunctions(result.functions)
            /\ pc' = "generate"
            /\ UNCHANGED returned
    /\ UNCHANGED << program, content, config, backup, next_func, changes, errors,
                    lines, pending, visited, responses, faults, entry, path_kind,
                    batch_vars, rule_vars >>

\* the provider's answer for a function: the one it gave before, if any
Answer(func, answer) ==
    /\ answer \in Answers
    /\ func.node \in DOMAIN responses => responses[func.node] = answer
    /\ responses' = IF func.node \in DOMAIN responses THEN responses
                    ELSE responses @@ (func.node :> answer)

InLoop == pc = "generate" /\ next_func <= Len(target_functions)

\* _process_single_function, the provider returns a text
GenerateReturns ==
    /\ InLoop
    /\ \E answer \in Answers :
         /\ answer.exc = "none"
         /\ Answer(target_functions[next_func], answer)
         /\ changes' = Append(changes,
                              ProcessFunction(target_functions[next_func], answer.content))
    /\ next_func' = next_func + 1
    /\ UNCHANGED << parser_vars, pc, config, backup, target_functions, errors, lines,
                    pending, visited, faults, returned,
                    entry, path_kind, batch_vars, rule_vars >>

\* the provider raises OSError: caught in _process_function, which returns
\* None; nothing is recorded
GenerateRaisesOSError ==
    /\ InLoop
    /\ \E answer \in Answers :
         /\ answer.exc = "OSError"
         /\ Answer(target_functions[next_func], answer)
    /\ faults' = Append(faults, [node |-> target_functions[next_func].node, exc |-> "OSError"])
    /\ next_func' = next_func + 1
    /\ UNCHANGED << parser_vars, pc, config, backup, target_functions, changes, errors,
                    lines, pending, visited, returned,
                    entry, path_kind, batch_vars, rule_vars >>

\* the provider raises ValueError: caught in _process_single_function, which
\* records an error string
GenerateRaisesValueError ==
    /\ InLoop
    /\ \E answer \in Answers :
         /\ answer.exc = "ValueError"
         /\ Answer(target_functions[next_func], answer)
    /\ errors' = Append(errors, <<"F","a","i","l","e","d"," ","t","o"," ","p","r","o","c","e","s","s"," ">>
                                \o target_functions[next_func].function_name
                                \o <<":"," ">> \o ExceptionText("ValueError"))
    /\ faults' = Append(faults, [node |-> target_functions[next_func].node, exc |-> "ValueError"])
    /\ next_func' = next_func + 1
    /\ UNCHANGED << parser_vars, pc, config, backup, target_functions, changes,
                    lines, pending, visited, returned,
                    entry, path_kind, batch_vars, rule_vars >>

\* the provider raises APIError: no handler of _process_function or
\* _process_single_function names it or a base class of it, so it leaves
\* the loop and the try block of _process_file
GenerateRaisesAPIError ==
    /\ InLoop
    /\ \E answer \in Answers :
         /\ answer.exc = "APIError"
         /\ Answer(target_functions[next_func], answer)
    /\ faults' = Append(faults, [node |-> target_functions[next_func].node, exc |-> "APIError"])
    /\ Raise("APIError")
    /\ UNCHANGED << parser_vars, config, backup, target_functions, next_func, changes,
                    errors, lines, pending, visited,
                    entry, path_kind, batch_vars, rule_vars >>

LoopDone == pc = "generate" /\ next_func > Len(target_functions)

\* the rewrite step runs whenever there is a change, preview or not
ShouldApplyAnyChange(processing, file_changes) == file_changes # <<>>

\* `if not self.config.processing.dry_run and changes`
ShouldApply(processing, file_changes) == ~processing.dry_run /\ file_changes # <<>>

\* _apply_changes: readlines and the sort
ApplyChangesRead ==
    /\ LoopDone
    /\ ShouldApply(config, changes)
    /\ lines' = content
    /\ pending' = SortedChanges(changes)
    /\ visited' = <<>>
    /\ pc' = "apply"
    /\ UNCHANGED << parser_vars, config, backup, target_functions, next_func, changes,
                    errors, responses, faults, returned,
                    entry, path_kind, batch_vars, rule_vars >>

\* _apply_changes: one iteration of the loop; its body is `pass`
ApplyChange ==
    /\ pc = "apply"
    /\ pending # <<>>
    /\ visited' = Append(visited, Head(pending))
    /\ pending' = Tail(pending)
    /\ lines' = lines
    /\ UNCHANGED << parser_vars, pc, config, backup, target_functions, next_func, changes,
                    errors, responses, faults, returned,
                    entry, path_kind, batch_vars, rule_vars >>

\* _apply_changes: open("w") and writelines succeed
WriteFile ==
    /\ pc = "apply"
    /\ pending = <<>>
    /\ content' = lines
    /\ pc' = "finish"
    /\ UNCHANGED << program, tree, functions, config, backup, call_vars, responses, returned,
                    entry, path_kind, batch_vars, rule_vars >>

\* _apply_changes: open("w") fails; the file has not been touched
OpenFails ==
    /\ pc = "apply"
    /\ pending = <<>>
    /\ Raise("OSError")
    /\ UNCHANGED << parser_vars, config, backup, call_vars, responses,
                    entry, path_kind, batch_vars, rule_vars >>

\* _apply_changes: open("w") has truncated the file and the write fails
\* with nothing on disk, or with every line but the last
WriteFails ==
    /\ pc = "apply"
    /\ pending = <<>>
    /\ \E k \in {0, Len(lines) - 1} : content' = SubSeq(lines, 1, k)
    /\ Raise("OSError")
    /\ UNCHANGED << program, tree, functions, config, backup, call_vars, responses,
                    entry, path_kind, batch_vars, rule_vars >>


\* _process_directory: the statements that follow the return of
\* _process_file inside the try block
RecordResult(locals, file, result) ==
    [ locals EXCEPT
        !.results = Append(@, [file_path |-> file.path] @@ result),
        !.total_files = @ + 1,
        !.successful_files = IF result.success THEN @ + 1 ELSE @,
        !.total_changes = IF result.success THEN @ + Len(result.changes) ELSE @,
        !.failed_files = IF result.success THEN @ ELSE @ + 1,
        !.total_errors = @ + Len(result.errors),
        !.total_warnings = @ + Len(result.warnings),
        !.next_file = @ + 1 ]

\* _process_directory: the handler `except (FileNotFoundError, ValueError)`
RecordFailure(locals, file, exception) ==
    [ locals EXCEPT
        !.failed_files = @ + 1,
        !.total_errors = @ + 1,
        !.results = Append(@, [ file_path |-> file.path,
                                changes |-> <<>>,
                                errors |-> << <<"F","a","i","l","e","d"," ","t","o"," ","p","r","o","c","e","s","s",":"," ">>
                                              \o ExceptionText(exception) >>,
                                warnings |-> <<>>,
                                success |-> FALSE,
                                file_size |-> 0,
                                docstrings_found |-> 0,
                                docstrings_modified |-> 0,
                                docstrings_added |-> 0 ]),
        !.next_file = @ + 1 ]

\* the BatchResult built at the end of _process_directory
BatchResult(locals) ==
    [ total_files |-> locals.total_files,
      successful_files |-> locals.successful_files,
      failed_files |-> locals.failed_files,
      total_changes |-> locals.total_changes,
      total_errors |-> locals.total_errors,
      total_warnings |-> locals.total_warnings,
      results |-> locals.results ]

\* the try block of _process_file has been left without an exception
AtEnd ==
    \/ pc = "finish"
    \/ LoopDone /\ ~ShouldApply(config, changes)

\* the end of _process_file: stat() and the ProcessingResult, which
\* fix_file returns, of which preview_changes returns the changes, and
\* which _process_directory adds to its results
Finish ==
    /\ AtEnd
    /\ path_kind # "removed_late"
    /\ LET result == ProcessingResult(functions, changes, errors, FileSize(content)) IN
       IF entry = "fix_directory"
       THEN /\ batch' = RecordResult(batch, batch.filtered_files[batch.next_file], result)
            /\ pc' = "next_file"
            /\ UNCHANGED returned
       ELSE /\ returned' = Append(returned,
                                  [call |-> entry, raised |-> "none", cause |-> "none",
                                   value |-> IF entry = "preview_changes"
                                             THEN result.changes ELSE result])
            /\ pc' = "idle"
            /\ UNCHANGED batch
    /\ UNCHANGED << parser_vars, config, backup, call_vars, responses, entry, path_kind,
                    directory, rule_vars >>

\* the steps of _process_file
ProcessFile ==
    \/ CheckFileSize
    \/ CreateBackup
    \/ ParseFile
    \/ GenerateReturns
    \/ GenerateRaisesOSError
    \/ GenerateRaisesValueError
    \/ GenerateRaisesAPIError
    \/ ApplyChangesRead
    \/ ApplyChange
    \/ WriteFile
    \/ OpenFails
    \/ WriteFails
    \/ Finish

Next ==
    \/ FixFile
    \/ FixFileRejects
    \/ FixDirectoryRejects
    \/ ProcessFile

Spec == Init /\ [][Next]_vars

\* a client that previews
NextPreview ==
    \/ PreviewChanges
    \/ PreviewChangesRejects
    \/ ProcessFile

SpecPreview == Init /\ [][NextPreview]_vars

(***************************************************************************)
(* PythonParser._get_function_signature_end_line on any line buffer        *)
(***************************************************************************)
\* the line buffers: a text cut after any of its lines, so that a header
\* or a body may be missing its end
Buffers(source_code) ==
    { SubSeq(SplitLines(source_code), 1, n) : n \in 1..Len(SplitLines(source_code)) }

InitResolve ==
    /\ program \in Programs
    /\ content = Render(program)
    /\ pc = "start"
    /\ config = DefaultConfig
    /\ path_kind = "py_file"
    /\ directory = <<>>
    /\ docstring_info = None
    /\ NothingCalled

\* _get_function_signature_end_line(node, lines) for a def statement of
\* the buffer
SignatureEndLine ==
    /\ pc = "start"
    /\ \E buffer \in Buffers(content) :
       \E k \in 1..Len(SourceNodes(program, 1)) :
         LET node == SourceNodes(program, 1)[k] IN
         /\ node.lineno <= Len(buffer)
         /\ lines' = buffer
         /\ returned' = << [call |-> "_get_function_signature_end_line",
                            raised |-> "none", cause |-> "none",
                            lineno |-> node.lineno,
                            value |-> FunctionSignatureEndLine(node, buffer)] >>
    /\ pc' = "resolved"
    /\ UNCHANGED << parser_vars, config, backup, target_functions, next_func, changes,
                    errors, pending, visited, responses, faults, entry, path_kind,
                    batch_vars, rule_vars >>

NextResolve == SignatureEndLine

SpecResolve == InitResolve /\ [][NextResolve]_vars

(***************************************************************************)
(* Docstringinator: fix_directory and _process_directory                   *)
(***************************************************************************)
MaxFiles == 2       \* files rglob finds in the directory

\* the directory handed to fix_directory: the working directory or one below it
Roots == { Cwd, Cwd \o << <<"s","r","c">> >> }

\* where below the root a file lies
SubDirectories == { <<>>, << <<"t","e","s","t","s">> >>, << <<"p","k","g">>, <<"t","e","s","t","s">> >> }

FileDigits == << "1", "2", "3", "4", "5", "6", "7", "8", "9" >>

\* the name of the i-th file found
FileName(i) == << "m", FileDigits[i] >> \o <<".","p","y">>

\* a file of the directory: one function without a docstring, a text that
\* does not parse, or a file that is lost or locked while the batch runs
FileStates ==
    { [program |-> << MkUnit(<<>>, <<"f">>, h, "return") >>, kind |-> "py_file"] :
        h \in {"plain", "broken"} }
    \cup { [program |-> << MkUnit(<<>>, <<"f">>, "plain", "return") >>, kind |-> k] :
             k \in {"unreadable", "missing", "removed_late"} }

\* a file of two functions: the provider may fail for one of them and
\* answer for the other
TwoFunctionFile ==
    [ program |-> << MkUnit(<<>>, <<"f">>, "plain", "return"),
                     MkUnit(<<>>, <<"g">>, "multi", "return") >>,
      kind |-> "py_file" ]

\* what rglob("*.py") can find below the root; the file of two functions,
\* when there is one, is the first and lies in the root itself
Listings(root) ==
    UNION { { [i \in 1..n |-> [path |-> root \o choice[i][1] \o << FileName(i) >>,
                               program |-> choice[i][2].program,
                               kind |-> choice[i][2].kind]] :
                choice \in { c \in [1..n -> SubDirectories
                                            \X (FileStates \cup {TwoFunctionFile})] :
                               \A i \in 1..n : c[i][2] = TwoFunctionFile
                                                => i = 1 /\ c[i][1] = <<>> } } :
            n \in 1..MaxFiles }

\* the default patterns, and an include pattern that names a directory
PatternConfigs ==
    { DefaultConfig,
      [DefaultConfig EXCEPT !.include_patterns = << << <<"s","r","c">>, <<"*">> >> >>] }

InitBatch ==
    /\ path_kind = "directory"
    /\ \E root \in Roots :
         \E files \in Listings(root) : directory = [root |-> root, files |-> files]
    /\ program = <<>>
    /\ content = <<>>
    /\ pc = "idle"
    /\ config \in PatternConfigs
    /\ docstring_info = None
    /\ NothingCalled

\* fix_directory on an existing directory: rglob and _filter_files
FixDirectory ==
    /\ pc = "idle"
    /\ returned = <<>>
    /\ path_kind = "directory"
    /\ entry' = "fix_directory"
    /\ batch' = [NoBatch EXCEPT !.filtered_files = FilterFiles(directory.files, config)]
    /\ pc' = "next_file"
    /\ UNCHANGED << parser_vars, config, backup, call_vars, responses, returned, path_kind,
                    directory, rule_vars >>

\* the loop of _process_directory hands the next file to _process_file;
\* no backup of this file exists and the provider has not seen its functions
NextFile ==
    /\ pc = "next_file"
    /\ batch.next_file <= Len(batch.filtered_files)
    /\ LET file == batch.filtered_files[batch.next_file] IN
         /\ program' = file.program
         /\ content' = Render(file.program)
         /\ path_kind' = file.kind
    /\ backup' = None
    /\ responses' = <<>>
    /\ EnterProcessFile
    /\ UNCHANGED << tree, functions, config, returned, entry, batch_vars, rule_vars >>

\* the file is gone when _process_file reaches the stat() that follows its
\* try block: FileNotFoundError leaves _process_file as it is and meets the
\* handler `except (FileNotFoundError, ValueError)` of _process_directory
StatFails ==
    /\ AtEnd
    /\ path_kind = "removed_late"
    /\ entry = "fix_directory"
    /\ batch' = RecordFailure(batch, batch.filtered_files[batch.next_file],
                              "FileNotFoundError")
    /\ pc' = "next_file"
    /\ UNCHANGED << parser_vars, config, backup, call_vars, responses, returned, entry,
                    path_kind, directory, rule_vars >>

\* the loop is over: _process_directory returns the BatchResult
ReturnBatch ==
    /\ pc = "next_file"
    /\ batch.next_file > Len(batch.filtered_files)
    /\ returned' = Append(returned, [call |-> "fix_directory", raised |-> "none",
                                     cause |-> "none", value |-> BatchResult(batch)])
    /\ pc' = "idle"
    /\ UNCHANGED << parser_vars, config, backup, call_vars, responses, entry, path_kind,
                    batch_vars, rule_vars >>

NextBatch ==
    \/ FixDirectory
    \/ NextFile
    \/ StatFails
    \/ ReturnBatch
    \/ ProcessFile

SpecBatch == InitBatch /\ [][NextBatch]_vars

(***************************************************************************)
(* Docstringinator: _should_improve_docstring and _process_function on     *)
(* one record                                                              *)
(***************************************************************************)
\* the existing docstring of the record: none, empty, blank, shorter than
\* MinDocstringLength before or only after strip(), of exactly that
\* length, and longer ones that name parameters, the return value, both
\* or neither
ExistingDocstrings ==
    { None, <<>>, <<" "," "," ">>, <<"S","h","o","r","t">>, <<"N","i","n","e","t","e","e","n"," ","c","h","a","r","a","c","t","e","r","s">>, <<"T","w","e","n","t","y"," ","c","h","a","r","a","c","t","e","r","s"," ","o","k">>,
      <<" "," ","N","i","n","e","t","e","e","n"," ","c","h","a","r","a","c","t","e","r","s"," "," ">>,
      <<"D","o","e","s"," ","a"," ","t","h","i","n","g"," ","q","u","i","c","k","l","y"," ","a","n","d"," ","w","e","l","l",".">>,
      <<"A","r","g","s",":"," ","x"," ","i","s"," ","t","h","e"," ","i","n","p","u","t"," ","v","a","l","u","e",".">>,
      <<"T","a","k","e","s"," ","t","h","e"," ","p","a","r","a","m","e","t","e","r"," ","x"," ","a","s"," ","i","n","p","u","t",".">>,
      <<"R","e","t","u","r","n","s"," ","t","h","e"," ","v","a","l","u","e"," ","c","o","m","p","u","t","e","d",".">>,
      <<"A","r","g","s",":"," ","x","."," ","R","e","t","u","r","n","s",":"," ","t","h","e"," ","v","a","l","u","e",".">> }

\* DocstringInfo records as the parser builds them: has_docstring tells
\* whether existing_docstring is set
DocstringInfos ==
    { [ function_name |-> <<"f">>,
        class_name |-> None,
        existing_docstring |-> d,
        line_number |-> 1,
        end_line_number |-> 3,
        has_docstring |-> d # None,
        is_method |-> FALSE,
        return_type |-> r,
        parameters |-> p,
        node |-> 1 ] :
      d \in ExistingDocstrings,
      r \in { None, <<"i","n","t">>, <<"N","o","n","e">> },
      p \in { <<>>, << <<"x">> >> } }

\* response.content: plain text, text inside triple quotes of either kind,
\* with the delimiters on lines of their own, followed by a newline, or both
ResponseContents ==
    { <<"T","e","s","t"," ","d","o","c","s","t","r","i","n","g",".">>,
      <<"\"","\"","\"","G","e","n","e","r","a","t","e","d"," ","d","o","c","s","t","r","i","n","g",".","\"","\"","\"">>,
      <<"'","'","'","G","e","n","e","r","a","t","e","d"," ","d","o","c","s","t","r","i","n","g",".","'","'","'">>,
      <<"\"","\"","\"">> \o << "\n" >> \o <<"G","e","n","e","r","a","t","e","d"," ","d","o","c","s","t","r","i","n","g",".">> \o << "\n" >> \o <<"\"","\"","\"">>,
      <<"\"","\"","\"","G","e","n","e","r","a","t","e","d"," ","d","o","c","s","t","r","i","n","g",".","\"","\"","\"">> \o << "\n" >>,
      <<"\"","\"","\"">> \o << "\n" >> \o <<"T","h","i","s"," ","i","s"," ","a"," ","t","e","s","t"," ","d","o","c","s","t","r","i","n","g",".">> \o << "\n" >> \o <<"\"","\"","\"">>
          \o << "\n" >> }

InitRules ==
    /\ docstring_info \in DocstringInfos
    /\ program = <<>>
    /\ content = <<>>
    /\ pc = "idle"
    /\ config = DefaultConfig
    /\ path_kind = "py_file"
    /\ directory = <<>>
    /\ tree = <<>>
    /\ functions = <<>>
    /\ backup = None
    /\ target_functions = <<>>
    /\ next_func = 1
    /\ changes = <<>>
    /\ errors = <<>>
    /\ lines = <<>>
    /\ pending = <<>>
    /\ visited = <<>>
    /\ \E text \in ResponseContents :
         responses = (docstring_info.node :> [exc |-> "none", content |-> text])
    /\ faults = <<>>
    /\ returned = <<>>
    /\ entry = "none"
    /\ batch = NoBatch
    /\ verdict = <<>>

\* _should_improve_docstring(docstring_info)
ShouldImprove ==
    /\ verdict = <<>>
    /\ verdict' = << ShouldImproveDocstring(docstring_info) >>
    /\ UNCHANGED << parser_vars, pc, config, backup, call_vars, responses, returned, entry,
                    path_kind, batch_vars, docstring_info >>

\* _process_function(docstring_info, file_path) with a provider that
\* answers: _clean_docstring, then _add_docstring or _improve_docstring
CleanAndBuildChange ==
    /\ changes = <<>>
    /\ changes' = << ProcessFunction(docstring_info,
                                     responses[docstring_info.node].content) >>
    /\ UNCHANGED << parser_vars, pc, config, backup, target_functions, next_func, errors,
                    lines, pending, visited, faults, responses, returned, entry,
                    path_kind, batch_vars, rule_vars >>

\* _process_file on a file whose only record is docstring_info, with a
\* provider that answers: the filter, then the one turn of the loop
FilterAndProcess ==
    /\ changes = <<>>
    /\ target_functions = <<>>
    /\ TargetFunctions(<< docstring_info >>) # <<>>
    /\ target_functions' = TargetFunctions(<< docstring_info >>)
    /\ changes' = << ProcessFunction(docstring_info,
                                     responses[docstring_info.node].content) >>
    /\ next_func' = next_func + 1
    /\ UNCHANGED << parser_vars, pc, config, backup, errors, lines, pending, visited,
                    faults, responses, returned, entry, path_kind, batch_vars, rule_vars >>

\* llm_provider.generate_docstring(docstring_info, style) of a shipped
\* provider
GenerateDocstring ==
    /\ returned = <<>>
    /\ \E outcome \in RequestOutcomes :
         LET result == GenerateDocstringResult(outcome,
                                               responses[docstring_info.node].content)
         IN returned' = << [call |-> "generate_docstring", raised |-> result.raised,
                            cause |-> result.cause, value |-> result.value] >>
    /\ UNCHANGED << parser_vars, pc, config, backup, call_vars, responses, entry,
                    path_kind, batch_vars, rule_vars >>

NextRules == ShouldImprove \/ CleanAndBuildChange \/ FilterAndProcess \/ GenerateDocstring

SpecRules == InitRules /\ [][NextRules]_vars

(***************************************************************************)
(* Properties of the parser (SpecParser)                                   *)
(***************************************************************************)
\* C1: every record of a definition whose header fits on one line has
\* line_number equal to the line the definition starts on, whatever follows
\* the colon on that line and whatever lines follow it.
C1_OneLineHeaderAtStart ==
    \A i \in 1..Len(functions) :
        tree[functions[i].node].header_lines = 1
        => functions[i].line_number = tree[functions[i].node].lineno

\* C2: every record of a definition whose parameter list spans several
\* lines has line_number equal to the line holding the header's terminating
\* colon, whatever the parameter names and the comments in the header.
C2_MultiLineHeaderAtColon ==
    \A i \in 1..Len(functions) :
        tree[functions[i].node].header_lines > 1
        => functions[i].line_number = tree[functions[i].node].colon_line

\* C3: the record of a nested definition has class_name set exactly when
\* the nearest enclosing construct is a class; a function nested in a
\* function or method has class_name None and is_method False.
C3_ClassNameIffNearestIsClass ==
    \A i \in 1..Len(functions) :
        LET parents == tree[functions[i].node].parents IN
        parents # <<>> =>
            /\ functions[i].class_name # None <=> parents[Len(parents)] = "class"
            /\ parents[Len(parents)] = "def"
               => functions[i].class_name = None /\ functions[i].is_method = FALSE

\* C4: a definition yields a record unless its name begins with an
\* underscore without also ending in a double underscore, or begins with
\* the test prefix.
C4_EligibilityFilter ==
    pc = "parsed" =>
    \A k \in 1..Len(tree) :
        LET name == tree[k].name
            excluded == \/ StartsWith(name, <<"_">>) /\ ~EndsWith(name, <<"_","_">>)
                        \/ StartsWith(name, <<"t","e","s","t","_">>)
        IN (\E i \in 1..Len(functions) : functions[i].node = k) <=> ~excluded

\* C4 (amended): a definition yields a record unless its name begins with
\* an underscore that is not followed by a second underscore, or begins
\* with `test_`; how the name ends plays no part.
C4_EligibilityByPrefix ==
    pc = "parsed" =>
    \A k \in 1..Len(tree) :
        LET name == tree[k].name
            single == name[1] = "_" /\ (Len(name) = 1 \/ name[2] # "_")
            test == Len(name) >= 5 /\ SubSeq(name, 1, 5) = <<"t","e","s","t","_">>
        IN (\E i \in 1..Len(functions) : functions[i].node = k) <=> ~(single \/ test)

\* a parsed text in which `__private` has a record and `_x__` has none
C4_Witness ==
    /\ pc = "parsed"
    /\ \E k \in 1..Len(tree) :
         /\ tree[k].name = <<"_","_","p","r","i","v","a","t","e">>
         /\ \E i \in 1..Len(functions) : functions[i].node = k
    /\ \E k \in 1..Len(tree) :
         /\ tree[k].name = <<"_","x","_","_">>
         /\ \A i \in 1..Len(functions) : functions[i].node # k

\* C5: every record has line_number <= end_line_number.
C5_HeaderNotAfterEnd ==
    \A i \in 1..Len(functions) :
        functions[i].line_number <= functions[i].end_line_number

\* the line is not indented and starts a def, a class or a decorator
StartsNewDefinition(line) ==
    /\ ~StartsWithAny(line, { <<" ">>, <<"\t">> })
    /\ StartsWithAny(Strip(line), { <<"d","e","f"," ">>, <<"c","l","a","s","s"," ">>, <<"@">> })

\* the scan takes the line for the end of a header: it is neither blank
\* nor a comment, and it ends in a colon or in a colon and a comment
HasTerminatingColon(line) ==
    LET line_stripped == Strip(line) IN
    /\ line_stripped # <<>>
    /\ ~StartsWith(line_stripped, <<"#">>)
    /\ (EndsWith(line_stripped, <<":">>) \/ ColonThenComment(line_stripped))

\* C23: when the scan from a definition's declaration line reaches, before
\* it has found any terminating colon, a later line that is not indented
\* and starts a new def, class or decorator, the record's line_number is
\* the fallback, the declaration line, and never the line of that other
\* definition.
C23_AbortsAtNextDefinition ==
    \A i \in 1..Len(functions) :
        LET node == tree[functions[i].node]
            source_lines == SplitLines(content)
        IN
        \A j \in (node.lineno + 1)..Len(source_lines) :
            (/\ StartsNewDefinition(source_lines[j])
             /\ \A k \in node.lineno..(j - 1) : ~HasTerminatingColon(source_lines[k]))
            => /\ functions[i].line_number = node.lineno
               /\ functions[i].line_number # j

\* the number of leading blanks of a line
Indentation(line) == Len(line) - Len(LStrip(line))

\* the later lines that begin a def or a class no deeper than the
\* definition itself
EndingLines(node, source_lines) ==
    { j \in (node.lineno + 1)..Len(source_lines) :
        /\ StartsWithAny(Strip(source_lines[j]), { <<"d","e","f"," ">>, <<"c","l","a","s","s"," ">> })
        /\ Indentation(source_lines[j]) <= Indentation(source_lines[node.lineno]) }

\* C24: end_line_number of a record is the line before the first later
\* line that begins a def or a class at or below the definition's own
\* indentation, a more deeply indented nested definition not ending the
\* body, and it is the end of the file when there is no such line.
C24_BodyEndsAtNextOuterDefinition ==
    \A i \in 1..Len(functions) :
        LET node == tree[functions[i].node]
            source_lines == SplitLines(content)
            ending == EndingLines(node, source_lines)
        IN functions[i].end_line_number =
             IF ending = {} THEN Len(source_lines)
             ELSE (CHOOSE j \in ending : \A k \in ending : j <= k) - 1

\* C28: for any line buffer and any definition whose declared start line
\* lies in it, _get_function_signature_end_line returns, and the line it
\* returns is at least the declared start line and at most the number of
\* lines of the buffer; when no line from the start line on ends a header,
\* it returns the fallback, the declared start line.
C28_ResolutionTotalAndBounded ==
    pc = "resolved"
    => LET last == returned[Len(returned)] IN
       /\ last.raised = "none"
       /\ last.value >= last.lineno
       /\ last.value <= Len(lines)
       /\ (\A k \in last.lineno..Len(lines) : ~HasTerminatingColon(lines[k]))
          => last.value = last.lineno

\* the buffer ends inside a header that spans several lines, and the
\* declared start line is returned
C28_Witness ==
    /\ pc = "resolved"
    /\ Len(lines) = 2
    /\ lines[1] = <<"d","e","f"," ","f","(">>
    /\ lines[2] = <<" "," "," "," ","a",":"," ","i","n","t",",">>
    /\ returned[1].lineno = 1
    /\ returned[1].value = 1

(***************************************************************************)
(* Properties of fix_file (Spec)                                           *)
(***************************************************************************)
\* C6: once fix_file, not in dry run, has returned an `add` change anchored
\* at line L, the file holds a docstring's opening delimiter on line L+1, and
\* parsing the file again reports that function at line L with a docstring.
C6_AddedDocstringFollowsHeader ==
    (pc = "idle" /\ returned # <<>> /\ ~config.dry_run
     /\ returned[Len(returned)].call = "fix_file"
     /\ returned[Len(returned)].raised = "none")
    => \A i \in 1..Len(returned[Len(returned)].value.changes) :
         LET change == returned[Len(returned)].value.changes[i]
             again == ExtractFunctions(AstWalk(program), content)
         IN change.change_type = "add" =>
              /\ change.line_number + 1 <= Len(content)
              /\ StartsWithAny(Strip(content[change.line_number + 1]),
                               {TripleDouble, TripleSingle})
              /\ \E j \in 1..Len(again) :
                   /\ again[j].node = change.node
                   /\ again[j].line_number = change.line_number
                   /\ again[j].has_docstring

\* C7: when fix_file runs twice on the file with the same provider answers,
\* the second run produces no Change for a function that received a
\* docstring in the first run.
C7_SecondRunChangesNothing ==
    \A r \in 1..(Len(returned) - 1) :
        (/\ ~config.dry_run
         /\ returned[r].call = "fix_file" /\ returned[r].raised = "none"
         /\ returned[r + 1].call = "fix_file" /\ returned[r + 1].raised = "none")
        => \A i \in 1..Len(returned[r].value.changes) :
             \A j \in 1..Len(returned[r + 1].value.changes) :
                returned[r + 1].value.changes[j].node # returned[r].value.changes[i].node

\* C8: the rewrite is atomic: the file holds its original text, or every
\* change of the batch has been applied; a failing write leaves the
\* original text.
C8_RewriteAtomic ==
    \/ content = Render(program)
    \/ /\ changes # <<>>
       /\ \A i \in 1..Len(changes) :
            /\ changes[i].line_number + 1 <= Len(content)
            /\ StartsWithAny(Strip(content[changes[i].line_number + 1]),
                             {TripleDouble, TripleSingle})

\* C9: _apply_changes visits the changes in descending line_number order,
\* sorted when the application starts whatever order they arrived in, and
\* visiting a change leaves every line at or above its anchor as it was.
C9_DescendingOrderKeepsLinesAbove ==
    /\ [](/\ \A i, j \in 1..Len(visited) :
               i < j => visited[i].line_number >= visited[j].line_number
          /\ \A i \in 1..Len(visited) : \A j \in 1..Len(pending) :
               visited[i].line_number >= pending[j].line_number
          /\ pc = "apply" =>
               /\ Len(visited) + Len(pending) = Len(changes)
               /\ \A k \in 1..Len(changes) :
                    \E m \in 1..(Len(visited) + Len(pending)) :
                       (visited \o pending)[m] = changes[k])
    /\ [][ApplyChange =>
            /\ Len(lines') = Len(lines)
            /\ \A n \in 1..Len(lines) :
                 n <= Head(pending).line_number => lines'[n] = lines[n]]_vars

\* two changes that arrived in ascending order have been visited in
\* descending order
C9_Witness ==
    /\ pc = "apply"
    /\ Len(visited) >= 2
    /\ visited[1].line_number > visited[2].line_number
    /\ visited[1] = changes[Len(changes)]
    /\ changes[1].line_number < changes[Len(changes)].line_number

\* C10: when the provider fails with APIError for one target function,
\* _process_file records an error string for it, still asks for every
\* remaining target function, and returns a ProcessingResult holding the
\* changes of the functions that succeeded.
C10_ApiErrorIsolated ==
    (pc = "idle" /\ returned # <<>>
     /\ returned[Len(returned)].call = "fix_file"
     /\ \E i \in 1..Len(faults) : faults[i].exc = "APIError")
    => /\ returned[Len(returned)].raised = "none"
       /\ next_func > Len(target_functions)
       /\ Len(returned[Len(returned)].value.errors) >= 1
       /\ returned[Len(returned)].value.changes = changes

\* the file cannot be processed: it is lost or locked, or its text does
\* not parse
FileFails(file) == file.kind # "py_file" \/ ~Parseable(file.program)

\* C11: fix_directory isolates the failure of one file: once it has
\* finished it has returned a BatchResult that holds one result for every
\* file the filter kept, in order, and the result of a file that could not
\* be processed (parse failure, missing or unreadable file) is a failed
\* one with an error string.
C11_BatchIsolatesFileFailure ==
    (entry = "fix_directory" /\ pc = "idle" /\ returned # <<>>)
    => LET last == returned[Len(returned)] IN
       /\ last.raised = "none"
       /\ Len(last.value.results) = Len(batch.filtered_files)
       /\ \A i \in 1..Len(batch.filtered_files) :
            /\ last.value.results[i].file_path = batch.filtered_files[i].path
            /\ FileFails(batch.filtered_files[i])
               => /\ ~last.value.results[i].success
                  /\ last.value.results[i].errors # <<>>

\* the running or last call of _process_file met a failure of the file or
\* of one of its functions: the size limit, a text that does not parse, a
\* provider that raised APIError or ValueError
MetFailure ==
    \/ FileTooLarge(FileSize(Render(program)), config.max_file_size)
    \/ ~Parseable(program)
    \/ \E i \in 1..Len(faults) : faults[i].exc \in {"APIError", "ValueError"}

\* C12: on an existing .py file fix_file does not raise on a failure of
\* the file or of one of its functions: the call returns a
\* ProcessingResult with success false and a non-empty errors list.
C12_FixFileCollectsFailures ==
    (/\ pc = "idle" /\ returned # <<>> /\ path_kind = "py_file"
     /\ returned[Len(returned)].call = "fix_file"
     /\ returned[Len(returned)].cause # "OSError"
     /\ MetFailure)
    => /\ returned[Len(returned)].raised = "none"
       /\ ~returned[Len(returned)].value.success
       /\ returned[Len(returned)].value.errors # <<>>

\* C13: _process_file goes past the size check only when the file is not
\* larger than processing.max_file_size, and the call on a .py file ends
\* with the size failure exactly when the size in bytes is strictly greater
\* than the limit, so a file of exactly the limit is processed; a file over
\* the limit has no backup, is not parsed, causes no request to the
\* provider and is not written.
C13_SizeLimitStrict ==
    LET too_large == FileSize(Render(program)) > config.max_file_size IN
    /\ pc \notin {"idle", "check_size"} => ~too_large
    /\ (pc = "idle" /\ returned # <<>> /\ path_kind = "py_file")
       => (returned[Len(returned)].cause = "ValueError: File too large" <=> too_large)
    /\ too_large => /\ backup = None
                    /\ tree = <<>> /\ functions = <<>>
                    /\ responses = <<>> /\ changes = <<>>
                    /\ content = Render(program)

\* a file one byte over the limit has been refused, with backups switched on
C13_Witness ==
    /\ pc = "idle" /\ returned # <<>>
    /\ returned[Len(returned)].raised = "ProcessingError"
    /\ returned[Len(returned)].cause = "ValueError: File too large"
    /\ FileSize(content) = config.max_file_size + 1
    /\ config.backup_files
    /\ backup = None

\* C14: a path that fails validation makes the public method raise at
\* once: fix_file raises FileNotFoundError for a missing path and
\* ValueError for an existing path whose suffix is not .py, fix_directory
\* raises FileNotFoundError for a missing path and NotADirectoryError for
\* an existing file; _process_file is never entered, so nothing is parsed,
\* backed up, sent to the provider or written.
C14_PathValidationRaisesFirst ==
    /\ \A i \in 1..Len(returned) :
         /\ (returned[i].call = "fix_file" /\ path_kind = "missing")
            => returned[i].raised = "FileNotFoundError"
         /\ (returned[i].call = "fix_file" /\ path_kind \in {"other_file", "directory"})
            => returned[i].raised = "ValueError"
         /\ (returned[i].call = "fix_directory" /\ path_kind = "missing")
            => returned[i].raised = "FileNotFoundError"
         /\ (returned[i].call = "fix_directory" /\ path_kind = "other_file")
            => returned[i].raised = "NotADirectoryError"
    /\ (path_kind \in {"missing", "other_file"}
        \/ (path_kind = "directory" /\ entry = "fix_file"))
       => /\ pc = "idle"
          /\ tree = <<>> /\ functions = <<>>
          /\ backup = None
          /\ responses = <<>>
          /\ content = Render(program)

\* fix_file and fix_directory have both been called on a missing path
C14_Witness ==
    /\ path_kind = "missing"
    /\ Len(returned) = 2
    /\ returned[1].call = "fix_file" /\ returned[1].raised = "FileNotFoundError"
    /\ returned[2].call = "fix_directory" /\ returned[2].raised = "FileNotFoundError"

\* the files kept by the filter are those whose path relative to base
\* matches an include pattern and no exclude pattern, in the order found
KeepsByPathRelativeTo(base) ==
    /\ \A i \in 1..Len(directory.files) :
         (\E j \in 1..Len(batch.filtered_files) :
             batch.filtered_files[j] = directory.files[i])
         <=> /\ MatchFile(config.include_patterns,
                          RelativeTo(directory.files[i].path, base))
             /\ ~MatchFile(config.exclude_patterns,
                           RelativeTo(directory.files[i].path, base))
    /\ \A j, k \in 1..Len(batch.filtered_files) :
         j < k => \E a, b \in 1..Len(directory.files) :
                    /\ a < b
                    /\ directory.files[a] = batch.filtered_files[j]
                    /\ directory.files[b] = batch.filtered_files[k]

C16_MissingFalseShortTrue ==
    verdict # <<>>
    => /\ ~docstring_info.has_docstring => verdict[1] = FALSE
       /\ (/\ docstring_info.has_docstring
           /\ Len(Strip(docstring_info.existing_docstring)) < MinDocstringLength)
          => verdict[1] = TRUE

\* the docstring says nothing of the parameters the function has
LacksParameters(info) ==
    /\ info.parameters # <<>>
    /\ ~Contains(Lower(Strip(info.existing_docstring)), <<"p","a","r","a","m">>)
    /\ ~Contains(Lower(Strip(info.existing_docstring)), <<"a","r","g">>)

\* the docstring says nothing of the value the function returns
LacksReturn(info) ==
    /\ info.return_type # None
    /\ Lower(info.return_type) # <<"n","o","n","e">>
    /\ ~Contains(Lower(Strip(info.existing_docstring)), <<"r","e","t","u","r","n">>)

\* C17: for a docstring of 20 characters or more after stripping,
\* _should_improve_docstring returns True if the function has a parameter
\* and the lower-cased docstring contains neither "param" nor "arg";
\* otherwise True exactly when return_type is present, is not a textual
\* "none", and the lower-cased docstring lacks "return"; otherwise False.
C17_ParametersThenReturn ==
    (/\ verdict # <<>>
     /\ docstring_info.has_docstring
     /\ Len(Strip(docstring_info.existing_docstring)) >= MinDocstringLength)
    => verdict[1] = (LacksParameters(docstring_info) \/ LacksReturn(docstring_info))

\* the text is enclosed in triple quotes, whitespace around them aside
InTripleQuotes(text) ==
    \E quotes \in {TripleDouble, TripleSingle} :
       /\ Len(Strip(text)) >= 2 * Len(quotes)
       /\ StartsWith(Strip(text), quotes)
       /\ EndsWith(Strip(text), quotes)

HasTripleQuotes(text) == Contains(text, TripleDouble) \/ Contains(text, TripleSingle)

\* C18: the new_text of the Change built from a provider answer enclosed
\* in triple quotes contains no triple-quote delimiter, also when the
\* delimiters sit on lines of their own or a newline follows the closing
\* one; an answer without delimiters is passed on unchanged.
C18_NewTextWithoutDelimiters ==
    changes # <<>>
    => LET raw == responses[changes[1].node].content IN
       /\ InTripleQuotes(raw) => ~HasTripleQuotes(changes[1].new_text)
       /\ ~HasTripleQuotes(raw) => changes[1].new_text = raw

\* C19: parse_string raises ParseError, and no other exception, whenever
\* the text cannot be parsed, and parse_file raises ParseError when the
\* path is missing or unreadable or the text cannot be parsed; a call that
\* raises returns no records, not even those of the definitions that
\* precede the error.
C19_ParserRaisesParseError ==
    returned # <<>>
    => LET last == returned[Len(returned)] IN
       /\ (last.call = "parse_string" /\ ~Parseable(program))
          => last.raised = "ParseError"
       /\ (last.call = "parse_file"
           /\ (path_kind \in {"missing", "unreadable"} \/ ~Parseable(program)))
          => last.raised = "ParseError"
       /\ last.raised # "none"
          => /\ last.raised = "ParseError"
             /\ last.value = None
             /\ functions = <<>>
       /\ last.raised = "none" => last.value = functions

\* parse_string has raised on a text whose first definition is well formed
\* and whose second is not
C19_Witness ==
    /\ pc = "raised"
    /\ Len(program) = 2
    /\ program[1].header = "plain" /\ program[1].body = "return"
    /\ program[2].header = "broken"
    /\ returned[Len(returned)].call = "parse_string"
    /\ returned[Len(returned)].raised = "ParseError"
    /\ returned[Len(returned)].cause = "SyntaxError"
    /\ functions = <<>>

\* C20: preview_changes only previews: whatever processing.dry_run is, the
\* call never enters _apply_changes and never opens the file for writing,
\* so the file keeps its text, and the call returns the changes found.
C20_PreviewNeverWrites ==
    entry = "preview_changes"
    => /\ pc \notin {"apply", "finish"}
       /\ content = Render(program)
       /\ (pc = "idle" /\ returned[Len(returned)].raised = "none")
          => returned[Len(returned)].value = changes

\* the outcome of a target function is on record: a Change for its node, or
\* an error string that names it
OutcomeRecorded(func) ==
    \/ \E j \in 1..Len(changes) : changes[j].node = func.node
    \/ \E j \in 1..Len(errors) :
         Contains(errors[j], <<"p","r","o","c","e","s","s"," ">> \o func.function_name \o <<":"," ">>)

\* C21: inside one _process_file call the requests go out one at a time in
\* the order of the target list: when the request for a function is about
\* to start, the change or the failure of every function before it has
\* been recorded, the recorded changes follow the order of the list, and
\* _apply_changes starts only once the outcome of the last target function
\* has been recorded.
C21_RequestAfterOutcomeRecorded ==
    pc \in {"generate", "apply", "finish"}
    => /\ \A i \in 1..Len(target_functions) :
            i < next_func => OutcomeRecorded(target_functions[i])
       /\ \A j \in 1..Len(changes) :
            \E i \in 1..Len(target_functions) :
                /\ i < next_func
                /\ target_functions[i].node = changes[j].node
                /\ \A k \in 1..(j - 1) :
                     \E h \in 1..(i - 1) : target_functions[h].node = changes[k].node
       /\ pc = "apply" => next_func > Len(target_functions)

RecordOf(change) ==
    CHOOSE func \in { target_functions[i] : i \in 1..Len(target_functions) } :
        func.node = change.node

\* C25: every Change accumulated by _process_file has change_type `add` or
\* `modify`; an `add` has an empty original_text and its record had no
\* docstring; a `modify` has a non-empty original_text equal to the
\* record's existing docstring; and line_number is the record's header
\* line.
C25_ChangeMatchesRecord ==
    target_functions # <<>>
    => \A j \in 1..Len(changes) :
         LET change == changes[j]
             func == RecordOf(change)
         IN
         /\ change.change_type \in {"add", "modify"}
         /\ change.change_type = "add"
            => /\ change.original_text = <<>>
               /\ ~func.has_docstring
               /\ func.existing_docstring = None
         /\ change.change_type = "modify"
            => /\ change.original_text # <<>>
               /\ func.has_docstring
               /\ change.original_text = func.existing_docstring
         /\ change.line_number = func.line_number

\* a record whose docstring is blank has been kept by the filter and has
\* given a `modify` change holding the blanks
C25_Witness ==
    /\ target_functions # <<>>
    /\ changes # <<>>
    /\ docstring_info.has_docstring
    /\ Strip(docstring_info.existing_docstring) = <<>>
    /\ changes[1].change_type = "modify"
    /\ changes[1].original_text = docstring_info.existing_docstring

\* C26: every failure of a provider's generate_docstring call on a record
\* of the parser, in building the prompt, in the request or in decoding the
\* reply, leaves the call as APIError: the call returns a response or
\* raises APIError, and no other exception.
C26_ProviderRaisesOnlyAPIError ==
    \A i \in 1..Len(returned) :
        returned[i].call = "generate_docstring"
        => returned[i].raised \in {"none", "APIError"}

\* C27: with processing.backup_files set, the file keeps the text it had
\* when the _process_file call began until _apply_changes writes it, and
\* when the write is about to happen the .bak copy exists and holds that
\* text; the write leaves the copy as it is, and no step of the core
\* removes a copy that exists.
C27_BackupPrecedesWrite ==
    /\ []((config.backup_files /\ pc = "apply") => (backup # None /\ backup = content))
    /\ [][ /\ pc \in {"check_size", "backup", "parse", "generate"} => content' = content
           /\ (config.backup_files /\ pc = "apply") => backup' = backup
           /\ backup # None => backup' # None
         ]_vars

\* the write of the first call has failed half way: the file is cut short
\* and the .bak copy holds the text the file had
C27_Witness ==
    /\ config.backup_files
    /\ pc = "idle"
    /\ Len(returned) = 1
    /\ returned[1].call = "fix_file"
    /\ returned[1].cause = "OSError"
    /\ content # Render(program)
    /\ backup = Render(program)

\* the sum of the lengths of the errors lists of the results
RECURSIVE SumErrors(_)
SumErrors(results) ==
    IF results = <<>> THEN 0
    ELSE Len(Head(results).errors) + SumErrors(Tail(results))

\* C29: in every BatchResult fix_directory returns, whatever files
\* succeeded and failed, successful_files + failed_files = total_files =
\* the number of entries of results, and total_errors is the sum of the
\* lengths of the results' errors lists.
C29_BatchCountsAgree ==
    (entry = "fix_directory" /\ pc = "idle" /\ returned # <<>>
     /\ returned[Len(returned)].raised = "none")
    => LET result == returned[Len(returned)].value IN
       /\ result.successful_files + result.failed_files = result.total_files
       /\ result.total_files = Len(result.results)
       /\ result.total_errors = SumErrors(result.results)

\* the sum of the lengths of the changes lists of the results
RECURSIVE SumChanges(_)
SumChanges(results) ==
    IF results = <<>> THEN 0
    ELSE Len(Head(results).changes) + SumChanges(Tail(results))

\* C30: in every BatchResult fix_directory returns, total_changes is the
\* sum of the numbers of changes of all the per-file results, and every
\* per-file result has success exactly when its errors list is empty and
\* docstrings_added + docstrings_modified equal to the number of its
\* changes.
C30_TotalChangesIsSum ==
    (entry = "fix_directory" /\ pc = "idle" /\ returned # <<>>
     /\ returned[Len(returned)].raised = "none")
    => LET result == returned[Len(returned)].value IN
       /\ result.total_changes = SumChanges(result.results)
       /\ \A i \in 1..Len(result.results) :
            /\ result.results[i].success <=> result.results[i].errors = <<>>
            /\ result.results[i].docstrings_added + result.results[i].docstrings_modified
               = Len(result.results[i].changes)

====
